---------------------------- MODULE Spec2Model ----------------------------
(***************************************************************************)
(* A model of gnsoria/getUserInput (src/getuserinput.py): the prompt loops *)
(* GetStringChoice / GetYesNo / GetTrueFalse, GetNumber / GetNumberInRange *)
(* / _AcceptAndValidateNumber, the wrapper _TruncateAtMax and _SysExitMsg. *)
(*                                                                         *)
(* Text is a sequence of one-character strings.  A number is a record      *)
(* [tag, cls, v]: tag is the Python type ("int" or "float"), cls is "fin", *)
(* "+inf", "-inf" or "nan", and v is the value in tenths (5 is v = 50,     *)
(* 2.5 is v = 25), so every decimal literal with at most one fractional    *)
(* digit is represented exactly.                                           *)
(*                                                                         *)
(* A state is taken whenever the program is blocked in input() or has      *)
(* ended: one action runs the code from one blocking read to the next.     *)
(***************************************************************************)
EXTENDS Integers, Sequences, FiniteSets, TLC

VARIABLES
    run,     \* the call under study: its arguments, frames, locals, output
    mirror,  \* the same call with min_opt and max_opt exchanged (SpecSwap only)
    stdin    \* the lines typed by the user and not yet consumed by input()

vars == <<run, mirror, stdin>>

(***************************************************************************)
(* Bounds of the model.                                                    *)
(***************************************************************************)
\* The user types at most MaxReads lines during one call.
MaxReads == 3
\* _TruncateAtMax is called on texts of at most MaxTextLen characters, with
\* max_len in 1..MaxWidth and spacer in 0..MaxSpacer.
MaxTextLen == 5
MaxWidth == 5
MaxSpacer == 2

(***************************************************************************)
(* Module constants of getuserinput.py.                                    *)
(***************************************************************************)
_EXIT_WORDS == { <<"q","u","i","t">>, <<"e","x","i","t">>, <<"l","e","a","v","e">> }
INT_ == "INT"
FLOAT_ == "FLOAT"
NUM_ == "NUM"
\* GetStringChoice: MAX_LINE_LEN, and PAD = len(" - '' for ''")
MAX_LINE_LEN == 60
PAD == 11
\* _TruncateAtMax: the defaults max_len=80, spacer=1
DEFAULT_MAX_LEN == 80
DEFAULT_SPACER == 1

(***************************************************************************)
(* Text: Python str operations used by the code.                           *)
(***************************************************************************)
IsSpace(c) == c \in {" ", "\n", "\t"}

IsDigit(c) == c \in {"0","1","2","3","4","5","6","7","8","9"}

DigitVal(c) ==
    CASE c = "0" -> 0 [] c = "1" -> 1 [] c = "2" -> 2 [] c = "3" -> 3
      [] c = "4" -> 4 [] c = "5" -> 5 [] c = "6" -> 6 [] c = "7" -> 7
      [] c = "8" -> 8 [] c = "9" -> 9

\* " " * n
Spaces(n) == [i \in 1..n |-> " "]

\* s * n, used to write long texts
Rep(s, n) == [i \in 1..(n * Len(s)) |-> s[((i - 1) % Len(s)) + 1]]

\* a slip: the key is not padded
ljustNoPad(s, width) == s

\* str.ljust(width)
ljust(s, width) == s \o Spaces(width - Len(s))

\* str.find(c) == -1
NotFound(s, c) == \A i \in 1..Len(s) : s[i] # c

\* str.strip()
RECURSIVE LStrip(_)
LStrip(s) == IF s # <<>> /\ IsSpace(Head(s)) THEN LStrip(Tail(s)) ELSE s

RECURSIVE RStrip(_)
RStrip(s) ==
    IF s # <<>> /\ IsSpace(s[Len(s)]) THEN RStrip(SubSeq(s, 1, Len(s) - 1)) ELSE s

Strip(s) == RStrip(LStrip(s))

\* str.lower(), on the letters the model's texts use
LowerChar(c) ==
    CASE c = "Y" -> "y" [] c = "N" -> "n" [] c = "T" -> "t" [] c = "F" -> "f"
      [] c = "Q" -> "q" [] c = "I" -> "i" [] c = "E" -> "e" [] c = "A" -> "a"
      [] OTHER -> c

Lower(s) == [i \in 1..Len(s) |-> LowerChar(s[i])]

\* str.split(): the maximal runs of non-whitespace characters, in order
Split(s) ==
    LET starts == {i \in 1..Len(s) :
                      ~IsSpace(s[i]) /\ (i = 1 \/ IsSpace(s[i - 1]))}
        ends == {i \in 1..Len(s) :
                    ~IsSpace(s[i]) /\ (i = Len(s) \/ IsSpace(s[i + 1]))}
        nth(S, k) == CHOOSE i \in S : Cardinality({j \in S : j < i}) = k - 1
    IN [k \in 1..Cardinality(starts) |-> SubSeq(s, nth(starts, k), nth(ends, k))]

\* sep.join(parts)
RECURSIVE Join(_, _)
Join(parts, sep) ==
    IF parts = <<>> THEN <<>>
    ELSE IF Len(parts) = 1 THEN parts[1]
    ELSE parts[1] \o sep \o Join(Tail(parts), sep)

(***************************************************************************)
(* _TruncateAtMax(str, max_len, spacer)                                    *)
(***************************************************************************)
\* The for loop over terms: display_str and next_line after the last term,
\* with the for-else's final append of next_line.
RECURSIVE WrapTerms(_, _, _, _)
WrapTerms(terms, display_str, next_line, max_len) ==
    IF terms = <<>> THEN Append(display_str, next_line)
    ELSE LET term == Head(terms) IN
         IF Len(next_line \o term) < max_len
         THEN WrapTerms(Tail(terms), display_str,
                        next_line \o term \o <<" ">>, max_len)
         ELSE WrapTerms(Tail(terms), Append(display_str, next_line),
                        term \o <<" ">>, max_len)

\* truncated_str = spacing.join(display_str)
truncated_str(str, max_len, spacer) ==
    Join(WrapTerms(Split(str), <<>>, <<>>, max_len), <<"\n">> \o Spaces(spacer))

\* truncated_str[0] raises IndexError when truncated_str is empty
_TruncateAtMaxRaises(str, max_len, spacer) ==
    /\ ~(Len(str) <= max_len - spacer)
    /\ truncated_str(str, max_len, spacer) = <<>>

\* a slip: no early return, a text that fits is split and joined as well
_TruncateAtMaxAlwaysWraps(str, max_len, spacer) ==
    LET t == truncated_str(str, max_len, spacer) IN
    IF t # <<>> /\ t[1] = "\n" THEN Tail(t) ELSE t

_TruncateAtMax(str, max_len, spacer) ==
    IF Len(str) <= max_len - spacer THEN str
    ELSE LET t == truncated_str(str, max_len, spacer) IN
         IF t # <<>> /\ t[1] = "\n" THEN Tail(t) ELSE t

(***************************************************************************)
(* Numbers: Python int and float values, float(), int() and comparison.    *)
(***************************************************************************)
PyInt(n) == [tag |-> "int", cls |-> "fin", v |-> 10 * n]

\* a finite float given in tenths
PyFloat(tenths) == [tag |-> "float", cls |-> "fin", v |-> tenths]

PosInf == [tag |-> "float", cls |-> "+inf", v |-> 0]
NegInf == [tag |-> "float", cls |-> "-inf", v |-> 0]
NaN == [tag |-> "float", cls |-> "nan", v |-> 0]

\* a <= b on Python numbers (an int and a float compare by value)
NumLe(a, b) ==
    IF a.cls = "nan" \/ b.cls = "nan" THEN FALSE
    ELSE IF a.cls = "-inf" \/ b.cls = "+inf" THEN TRUE
    ELSE IF a.cls = "+inf" \/ b.cls = "-inf" THEN FALSE
    ELSE a.v <= b.v

\* a == b
NumEq(a, b) == a.cls # "nan" /\ b.cls # "nan" /\ a.cls = b.cls /\ a.v = b.v

\* a < b
NumLt(a, b) == NumLe(a, b) /\ ~NumEq(a, b)

\* float(x) of a number
ToFloat(a) == [a EXCEPT !.tag = "float"]

\* int(x) of a number raises OverflowError on an infinity, ValueError on a nan
ToIntRaises(a) ==
    CASE a.cls \in {"+inf", "-inf"} -> "OverflowError"
      [] a.cls = "nan" -> "ValueError"
      [] OTHER -> ""

\* a slip: the value is left a float
ToIntKeepsFloat(a) == a

\* int(x) truncates toward zero
ToInt(a) ==
    [tag |-> "int", cls |-> "fin",
     v |-> IF a.v >= 0 THEN 10 * (a.v \div 10) ELSE -(10 * ((-a.v) \div 10))]

\* the value of a run of decimal digits
RECURSIVE DigitsVal(_, _)
DigitsVal(s, acc) ==
    IF s = <<>> THEN acc ELSE DigitsVal(Tail(s), 10 * acc + DigitVal(Head(s)))

AllDigits(s) == \A i \in 1..Len(s) : IsDigit(s[i])

\* the first position of character c in s, or 0
FirstIndex(s, c) ==
    IF NotFound(s, c) THEN 0
    ELSE CHOOSE i \in 1..Len(s) : s[i] = c /\ \A j \in 1..(i - 1) : s[j] # c

RECURSIVE Pow10(_)
Pow10(n) == IF n <= 0 THEN 1 ELSE 10 * Pow10(n - 1)

(***************************************************************************)
(* float(text).  The grammar covered: optional surrounding whitespace, an  *)
(* optional sign, then inf / infinity / nan in any case, or digits with at *)
(* most one "." (at most one fractional digit) and an optional exponent    *)
(* "e" digits.  A double holds no finite value of 1e309 or more, so a non- *)
(* zero mantissa with an exponent above 308 is an infinity.                *)
(***************************************************************************)
\* the unsigned part: [ok, num]
ParseUnsigned(s) ==
    LET bad == [ok |-> FALSE, num |-> NaN]
        low == Lower(s)
        e == FirstIndex(low, "e")
        mant == IF e = 0 THEN s ELSE SubSeq(s, 1, e - 1)
        expo == IF e = 0 THEN <<>> ELSE SubSeq(s, e + 1, Len(s))
        dot == FirstIndex(mant, ".")
        ip == IF dot = 0 THEN mant ELSE SubSeq(mant, 1, dot - 1)
        fp == IF dot = 0 THEN <<>> ELSE SubSeq(mant, dot + 1, Len(mant))
    IN
    IF low \in { <<"i","n","f">>, <<"i","n","f","i","n","i","t","y">> }
    THEN [ok |-> TRUE, num |-> PosInf]
    ELSE IF low = <<"n","a","n">> THEN [ok |-> TRUE, num |-> NaN]
    ELSE IF \/ ~AllDigits(ip) \/ ~AllDigits(fp) \/ ~AllDigits(expo)
            \/ Len(ip) + Len(fp) = 0
            \/ Len(fp) > 1
            \/ (e # 0 /\ expo = <<>>)
    THEN bad
    ELSE LET m == 10 * DigitsVal(ip, 0) + DigitsVal(fp, 0)
             x == DigitsVal(expo, 0)
         IN IF m # 0 /\ x > 308 THEN [ok |-> TRUE, num |-> PosInf]
            ELSE [ok |-> TRUE, num |-> PyFloat(m * Pow10(IF m = 0 THEN 0 ELSE x))]

Negate(a) ==
    CASE a.cls = "+inf" -> NegInf
      [] a.cls = "-inf" -> PosInf
      [] OTHER -> [a EXCEPT !.v = -a.v]

\* float(text): [ok, num]; ok = FALSE is ValueError
ParseFloat(text) ==
    LET s == Strip(text) IN
    IF s = <<>> THEN [ok |-> FALSE, num |-> NaN]
    ELSE IF Head(s) = "-"
         THEN LET p == ParseUnsigned(Tail(s)) IN [p EXCEPT !.num = Negate(p.num)]
    ELSE IF Head(s) = "+" THEN ParseUnsigned(Tail(s))
    ELSE ParseUnsigned(s)

(***************************************************************************)
(* eval(f"{min_opt}<={num_choice}<={max_opt}"): each number is formatted   *)
(* into the expression text and read back by the evaluator.  A finite int  *)
(* or float is written as a literal that evaluates to the same value; an   *)
(* infinity is written inf or -inf and a nan is written nan, which the     *)
(* evaluator reads as names, and no such name is defined.                  *)
(***************************************************************************)
\* f"{x}": the token the number becomes in the expression text
FormatNumber(a) ==
    IF a.cls = "fin" THEN [kind |-> "literal", num |-> a]
    ELSE [kind |-> "name", num |-> a]

\* the expression text, as its three operand tokens
RangeExpr(min_opt, num_choice, max_opt) ==
    <<FormatNumber(min_opt), FormatNumber(num_choice), FormatNumber(max_opt)>>

\* eval(...) raises NameError on an undefined name
EvalRaises(expr) == \E i \in 1..Len(expr) : expr[i].kind = "name"

\* eval(...) of a chain a<=b<=c of literals
EvalChain(expr) ==
    NumLe(expr[1].num, expr[2].num) /\ NumLe(expr[2].num, expr[3].num)

(***************************************************************************)
(* The state of one call.                                                  *)
(*   fn, prompt, kwoptions, min_arg, max_arg, data_type : the arguments    *)
(*   frames   : the active function frames, innermost last                 *)
(*   pc       : "idle" (not called yet), "choice_input" (blocked in        *)
(*              GetStringChoice's input()), "number_input" (blocked in     *)
(*              _AcceptAndValidateNumber's input()), "returned", "raised"  *)
(*   min_opt, max_opt : GetNumberInRange's parameters, as reassigned       *)
(*   stdout   : what print() wrote, one entry per print call               *)
(*   nread    : the number of input() calls that returned                  *)
(*   line     : the last line input() returned                             *)
(*   coerced, num_choice : whether the last line was coerced to a number   *)
(*              by _AcceptAndValidateNumber, and that number               *)
(*   result   : the value the outermost call returned                      *)
(*   exc      : the exception that left the outermost call                 *)
(***************************************************************************)
\* Values a call returns: None, a str, a bool or a number.
RNone == [kind |-> "None", text |-> <<>>, bool |-> FALSE, num |-> PyInt(0)]
RStr(t) == [kind |-> "str", text |-> t, bool |-> FALSE, num |-> PyInt(0)]
RBool(b) == [kind |-> "bool", text |-> <<>>, bool |-> b, num |-> PyInt(0)]
RNum(n) == [kind |-> "num", text |-> <<>>, bool |-> FALSE, num |-> n]

\* One print call: the format text, its text arguments, its number arguments.
Entry(fmt, args, nums) == [fmt |-> fmt, args |-> args, nums |-> nums]

OPTION_TEMPLATE == " - '{0}' for '{1}'"
MsgNotAnOption == Entry("That wasn't one of the options.", <<>>, <<>>)
MsgBlank == Entry("\n\n", <<>>, <<>>)
MsgWrong == Entry("\nSomething went wrong...\n", <<>>, <<>>)
MsgPickNumber == Entry("Please pick a number.", <<>>, <<>>)
MsgThanks == Entry("Thanks!", <<>>, <<>>)
MsgText(text) == Entry("{0}", <<text>>, <<>>)
MsgOption(key, desc) == Entry(OPTION_TEMPLATE, <<key, desc>>, <<>>)
MsgHint(min_opt, max_opt) ==
    Entry("(min = {min_opt:,}, max = {max_opt:,})", <<>>, <<min_opt, max_opt>>)
MsgBetween(min_opt, max_opt) ==
    Entry("Please pick a number between {min_opt} and {max_opt}.", <<>>,
          <<min_opt, max_opt>>)

print(r, entry) == [r EXCEPT !.stdout = Append(@, entry)]

NewRun(fn, prompt, kwoptions, min_arg, max_arg, data_type) ==
    [fn |-> fn, prompt |-> prompt, kwoptions |-> kwoptions,
     min_arg |-> min_arg, max_arg |-> max_arg, data_type |-> data_type,
     frames |-> <<>>, pc |-> "idle",
     min_opt |-> min_arg, max_opt |-> max_arg,
     stdout |-> <<>>, nread |-> 0, line |-> <<>>,
     coerced |-> FALSE, num_choice |-> PyInt(0),
     result |-> RNone, exc |-> ""]

\* calling a function pushes its frame; leaving it pops the frame
Enter(r, f) == [r EXCEPT !.frames = Append(@, f)]
Leave(r) == [r EXCEPT !.frames = SubSeq(@, 1, Len(@) - 1)]
Top(r) == r.frames[Len(r.frames)]

\* input() returned line l
Consume(r, l) ==
    [r EXCEPT !.nread = @ + 1, !.line = l, !.coerced = FALSE]

RECURSIVE Unwind(_, _)
RECURSIVE _SysExitMsg(_)
RECURSIVE ReturnFrom(_, _)
RECURSIVE GetNumberInRangeLoop(_)

(***************************************************************************)
(* Exception exc is raised inside the try block of the innermost frame of  *)
(* r: the except clauses of each frame, innermost first.  An exception     *)
(* that leaves the outermost frame ends the call.  SystemExit is not an    *)
(* Exception, so "except Exception" lets it pass.                          *)
(***************************************************************************)
Unwind(r, exc) ==
    IF r.frames = <<>> THEN [r EXCEPT !.pc = "raised", !.exc = exc]
    ELSE CASE Top(r) = "GetStringChoice" ->
                IF exc = "TypeError" THEN Unwind(Leave(print(r, MsgBlank)), exc)
                ELSE IF exc = "SystemExit" THEN _SysExitMsg(Leave(r))
                ELSE Unwind(Leave(r), exc)
           [] Top(r) = "_AcceptAndValidateNumber" ->
                IF exc = "SystemExit" THEN Unwind(Leave(r), exc)
                ELSE Unwind(Leave(print(r, MsgWrong)), exc)
           [] Top(r) = "GetNumberInRange" ->
                IF exc = "SystemExit" THEN _SysExitMsg(Leave(r))
                ELSE Unwind(Leave(print(r, MsgWrong)), exc)
           [] Top(r) = "GetNumber" ->
                IF exc = "SystemExit" THEN Unwind(Leave(r), exc)
                ELSE Unwind(Leave(print(r, MsgWrong)), exc)
           [] OTHER -> Unwind(Leave(r), exc)

\* a slip: the farewell is printed and SystemExit is not raised again
_SysExitMsgReturns(r) == print(r, MsgThanks)

\* _SysExitMsg(msg="Thanks!"): print, then raise SystemExit where it was called
_SysExitMsg(r) == Unwind(print(r, MsgThanks), "SystemExit")

(***************************************************************************)
(* GetStringChoice(prompt, **kwoptions).  kwoptions is the keyword dict in *)
(* insertion order: a sequence of [key, desc].                             *)
(***************************************************************************)
Option(key, desc) == [key |-> key, desc |-> desc]

\* A keyword value that is no str: the bool True.
PyTrue == <<"True">>
IsStr(value) == value # PyTrue

\* kwoptions[key]
DescOf(kwoptions, key) ==
    kwoptions[CHOOSE i \in 1..Len(kwoptions) : kwoptions[i].key = key].desc

Keys(kwoptions) == {kwoptions[i].key : i \in 1..Len(kwoptions)}

\* a slip: max(..., default=0), which accepts an empty dict
MaxKeyLenNeverRaises(kwoptions) == FALSE

\* max(map(len, kwoptions)) raises ValueError on an empty dict
MaxKeyLenRaises(kwoptions) == kwoptions = <<>>

\* space = max(map(len, kwoptions))
MaxKeyLen(kwoptions) ==
    CHOOSE n \in {Len(kwoptions[i].key) : i \in 1..Len(kwoptions)} :
        \A i \in 1..Len(kwoptions) : Len(kwoptions[i].key) <= n

\* a slip: the line is looked up among the descriptions
IsOptionByValue(user_choice, kwoptions) ==
    user_choice \in {kwoptions[i].desc : i \in 1..Len(kwoptions)}

\* a slip: the line is trimmed and case-folded before the lookup
IsOptionFolded(user_choice, kwoptions) ==
    Strip(Lower(user_choice)) \in {Strip(Lower(k)) : k \in Keys(kwoptions)}

\* user_choice in kwoptions
IsOption(user_choice, kwoptions) == user_choice \in Keys(kwoptions)

\* user_choice in _EXIT_WORDS
IsExitWord(user_choice) == user_choice \in _EXIT_WORDS

\* for key in kwoptions: print(OPTION_TEMPLATE.format(...)), from the i-th key
\* on, then input() blocks.  len() of a value that is no str raises TypeError
\* in _TruncateAtMax.
RECURSIVE PrintOptions(_, _)
PrintOptions(r, i) ==
    IF i > Len(r.kwoptions) THEN [r EXCEPT !.pc = "choice_input"]
    ELSE LET space == MaxKeyLen(r.kwoptions)
             key == r.kwoptions[i].key
             desc == r.kwoptions[i].desc
         IN IF ~IsStr(desc) THEN Unwind(r, "TypeError")
            ELSE IF _TruncateAtMaxRaises(desc, MAX_LINE_LEN, space + PAD)
            THEN Unwind(r, "IndexError")
            ELSE PrintOptions(
                     print(r, MsgOption(ljust(key, space),
                                        _TruncateAtMax(desc, MAX_LINE_LEN,
                                                       space + PAD))),
                     i + 1)

\* one pass of the while loop down to input(): the prompt, then the options
GetStringChoiceLoop(r) ==
    IF _TruncateAtMaxRaises(r.prompt, DEFAULT_MAX_LEN, DEFAULT_SPACER)
    THEN Unwind(r, "IndexError")
    ELSE PrintOptions(
             print(r, MsgText(_TruncateAtMax(r.prompt, DEFAULT_MAX_LEN,
                                             DEFAULT_SPACER))),
             1)

\* a slip: the rejection message, then input() again without the prompt
\* and the options
GetStringChoiceRejectNoRedisplay(r) == print(r, MsgNotAnOption)

\* a slip: a retry limit, the second rejected line ends the call
GetStringChoiceRejectTwice(r) ==
    IF r.nread >= 2 THEN Unwind(print(r, MsgNotAnOption), "RuntimeError")
    ELSE GetStringChoiceLoop(print(r, MsgNotAnOption))

\* after a line that is no option and no exit word: the rejection message,
\* then the loop again
GetStringChoiceReject(r) == GetStringChoiceLoop(print(r, MsgNotAnOption))

\* a slip: the description of the chosen key is returned
GetStringChoiceInputByDescription(r, user_choice) ==
    LET r1 == Consume(r, user_choice) IN
    IF IsOption(user_choice, r.kwoptions)
    THEN ReturnFrom(r1, RStr(DescOf(r.kwoptions, user_choice)))
    ELSE IF IsExitWord(user_choice) THEN Unwind(r1, "SystemExit")
    ELSE GetStringChoiceReject(r1)

\* a slip: the exit words are looked up before the option keys
GetStringChoiceInputExitFirst(r, user_choice) ==
    LET r1 == Consume(r, user_choice) IN
    IF IsExitWord(user_choice) THEN Unwind(r1, "SystemExit")
    ELSE IF IsOption(user_choice, r.kwoptions)
    THEN ReturnFrom(r1, RStr(user_choice))
    ELSE GetStringChoiceReject(r1)

\* user_choice = input() returned: accept, exit or reject
GetStringChoiceInput(r, user_choice) ==
    LET r1 == Consume(r, user_choice) IN
    IF IsOption(user_choice, r.kwoptions) THEN ReturnFrom(r1, RStr(user_choice))
    ELSE IF IsExitWord(user_choice) THEN Unwind(r1, "SystemExit")
    ELSE GetStringChoiceReject(r1)

\* the call: space is computed before the loop is entered
GetStringChoice(r) ==
    IF MaxKeyLenRaises(r.kwoptions) THEN Unwind(Leave(r), "ValueError")
    ELSE GetStringChoiceLoop(r)

\* GetYesNo(prompt): return GetStringChoice(prompt, y="yes", n="no")
YesNoOptions ==
    << Option(<<"y">>, <<"y","e","s">>), Option(<<"n">>, <<"n","o">>) >>

GetYesNo(r) ==
    GetStringChoice(Enter([r EXCEPT !.kwoptions = YesNoOptions], "GetStringChoice"))

\* GetTrueFalse(prompt): GetStringChoice(prompt, t="True", f="False") == "t"
TrueFalseOptions ==
    << Option(<<"t">>, <<"T","r","u","e">>), Option(<<"f">>, <<"F","a","l","s","e">>) >>

GetTrueFalse(r) ==
    GetStringChoice(Enter([r EXCEPT !.kwoptions = TrueFalseOptions], "GetStringChoice"))

(***************************************************************************)
(* GetNumber / GetNumberInRange / _AcceptAndValidateNumber                 *)
(***************************************************************************)
\* _AcceptAndValidateNumber() is called: input() blocks
_AcceptAndValidateNumber(r) ==
    [Enter(r, "_AcceptAndValidateNumber") EXCEPT !.pc = "number_input"]

\* num_choice = input() returned, in _AcceptAndValidateNumber's loop
_AcceptAndValidateNumberInput(r, num_choice) ==
    LET r1 == Consume(r, num_choice)
        p == ParseFloat(num_choice)
        got(n) == ReturnFrom([r1 EXCEPT !.coerced = TRUE, !.num_choice = n], RNum(n))
    IN
    IF IsExitWord(num_choice) THEN _SysExitMsg(r1)
    ELSE IF ~p.ok THEN print(r1, MsgPickNumber)
    ELSE IF NotFound(num_choice, ".")
         THEN CASE ToIntRaises(p.num) = "ValueError" -> print(r1, MsgPickNumber)
                [] ToIntRaises(p.num) = "OverflowError" -> Unwind(r1, "OverflowError")
                [] OTHER -> got(ToInt(p.num))
    ELSE got(p.num)

\* a slip: the bounds are used in the order given
NormalizeRangeNoSwap(r) == r

\* if max_opt < min_opt: min_opt, max_opt = max_opt, min_opt
NormalizeRange(r) ==
    IF NumLt(r.max_opt, r.min_opt)
    THEN [r EXCEPT !.min_opt = r.max_opt, !.max_opt = r.min_opt]
    ELSE r

\* if max_opt == min_opt: return max_opt
IsDegenerateRange(r) == NumEq(r.max_opt, r.min_opt)

\* one pass of GetNumberInRange's while loop down to the call that reads
GetNumberInRangeLoop(r) ==
    LET r1 == NormalizeRange(r) IN
    IF IsDegenerateRange(r1) THEN ReturnFrom(r1, RNum(r1.max_opt))
    ELSE _AcceptAndValidateNumber(print(r1, MsgHint(r1.min_opt, r1.max_opt)))

\* _AcceptAndValidateNumber returned num_choice to GetNumberInRange
GetNumberInRangeCheck(r, num_choice) ==
    LET expr == RangeExpr(r.min_opt, num_choice, r.max_opt) IN
    IF EvalRaises(expr) THEN Unwind(r, "NameError")
    ELSE IF EvalChain(expr) THEN ReturnFrom(r, RNum(num_choice))
    ELSE GetNumberInRangeLoop(print(r, MsgBetween(r.min_opt, r.max_opt)))

\* the call of GetNumberInRange(min_opt, max_opt)
GetNumberInRange(r, min_opt, max_opt) ==
    GetNumberInRangeLoop([Enter(r, "GetNumberInRange") EXCEPT
                             !.min_opt = min_opt, !.max_opt = max_opt])

\* min_opt == -1.0 and max_opt == -1.0
NoRangeGiven(min_opt, max_opt) ==
    NumEq(min_opt, PyFloat(-10)) /\ NumEq(max_opt, PyFloat(-10))

\* GetNumber down to the first read
GetNumber(r) ==
    IF _TruncateAtMaxRaises(r.prompt, DEFAULT_MAX_LEN, DEFAULT_SPACER)
    THEN Unwind(Leave(r), "IndexError")
    ELSE LET r1 == print(r, MsgText(_TruncateAtMax(r.prompt, DEFAULT_MAX_LEN,
                                                    DEFAULT_SPACER)))
         IN IF NoRangeGiven(r.min_arg, r.max_arg)
            THEN _AcceptAndValidateNumber(r1)
            ELSE GetNumberInRange(r1, r.min_arg, r.max_arg)

\* a slip: the number is returned as entered, whatever the data_type
GetNumberCastAsEntered(r, num_choice) == ReturnFrom(r, RNum(num_choice))

\* GetNumber's last step: num_choice as the data_type asks
GetNumberCast(r, num_choice) ==
    CASE r.data_type = NUM_ -> ReturnFrom(r, RNum(num_choice))
      [] r.data_type = FLOAT_ -> ReturnFrom(r, RNum(ToFloat(num_choice)))
      [] r.data_type = INT_ ->
            IF ToIntRaises(num_choice) # ""
            THEN Unwind(Leave(r), ToIntRaises(num_choice))
            ELSE ReturnFrom(r, RNum(ToInt(num_choice)))
      [] OTHER -> ReturnFrom(r, RNone)

(***************************************************************************)
(* The innermost frame of r returns value to its caller, which goes on     *)
(* from the call: GetYesNo returns the value, GetTrueFalse compares it     *)
(* with "t", GetNumberInRange checks the range, GetNumber casts.  A return *)
(* from the outermost frame ends the call.                                 *)
(***************************************************************************)
ReturnFrom(r, value) ==
    LET c == Leave(r) IN
    IF c.frames = <<>> THEN [c EXCEPT !.pc = "returned", !.result = value]
    ELSE CASE Top(c) = "GetYesNo" -> ReturnFrom(c, value)
           [] Top(c) = "GetTrueFalse" -> ReturnFrom(c, RBool(value.text = <<"t">>))
           [] Top(c) = "GetNumberInRange" -> GetNumberInRangeCheck(c, value.num)
           [] Top(c) = "GetNumber" -> GetNumberCast(c, value.num)

(***************************************************************************)
(* The calls and the input lines the model draws from.                     *)
(***************************************************************************)
ShortPrompt == <<"O","k","?">>
\* 85 characters: longer than the default width, so the prompt is wrapped
LongPrompt == Rep(<<"w","o","r","d"," ">>, 17)

\* an option set with keys of two lengths, one of them an exit word, and a
\* description long enough to be wrapped
GoQuitOptions ==
    << Option(<<"g","o">>, Rep(<<"o","n"," ">>, 25)),
       Option(<<"q","u","i","t">>, <<"s","t","o","p">>) >>

\* an option set whose keys are the other two exit words
ExitLeaveOptions ==
    << Option(<<"e","x","i","t">>, <<"o","u","t">>),
       Option(<<"l","e","a","v","e">>, <<"a","w","a","y">>) >>

\* a description of 50 blanks: longer than the room left, and it has no term
BlankOptions == << Option(<<"b">>, Spaces(50)) >>

\* the keyword return_description=True given after, and before, y and n: the
\* function has no such parameter, so the keyword is one more entry of
\* kwoptions
ReturnDescriptionKey ==
    <<"r","e","t","u","r","n","_","d","e","s","c","r","i","p","t","i","o","n">>

ReturnDescriptionOptions ==
    { YesNoOptions \o << Option(ReturnDescriptionKey, PyTrue) >>,
      << Option(ReturnDescriptionKey, PyTrue) >> \o YesNoOptions }

ChoiceCalls ==
    { NewRun("GetStringChoice", p, o, PyInt(-1), PyInt(-1), NUM_) :
        p \in {ShortPrompt},
        o \in {<<>>, GoQuitOptions, ExitLeaveOptions, BlankOptions}
                 \cup ReturnDescriptionOptions }
    \cup { NewRun("GetStringChoice", LongPrompt, YesNoOptions, PyInt(-1), PyInt(-1), NUM_) }
    \cup { NewRun(f, ShortPrompt, <<>>, PyInt(-1), PyInt(-1), NUM_) :
             f \in {"GetYesNo", "GetTrueFalse"} }

\* (min_opt, max_opt) pairs: none given, in order, exchanged, equal, unbounded,
\* with a bound that is no integer (0.5)
RangePairs ==
    { <<PyInt(-1), PyInt(-1)>>, <<PyInt(1), PyInt(10)>>, <<PyInt(10), PyInt(1)>>,
      <<PyInt(5), PyInt(5)>>, <<PyInt(1), PosInf>>, <<PyFloat(5), PyInt(5)>> }

NumberCalls ==
    { NewRun("GetNumber", ShortPrompt, <<>>, mm[1], mm[2], d) :
        mm \in RangePairs, d \in {NUM_, INT_, FLOAT_} }
    \cup { NewRun("GetNumberInRange", <<>>, <<>>, mm[1], mm[2], NUM_) :
             mm \in RangePairs \ { <<PyInt(-1), PyInt(-1)>> } }

Calls == ChoiceCalls \cup NumberCalls

ChoiceLines ==
    { <<"y">>, <<"n">>, <<"t">>, <<"Y">>, <<" ","y">>, <<"y"," ">>,
      <<"g","o">>, <<"q","u","i","t">>, <<"e","x","i","t">>,
      <<"l","e","a","v","e">>, <<"Q","u","i","t">>, <<>> }

NumberLines ==
    { <<"5">>, <<"5",".","0">>, <<"5",".">>, <<"1">>, <<"1","0">>, <<"1","2">>,
      <<"0",".","5">>, <<"-","3">>, <<"a","b","c">>, <<>>, <<"n","a","n">>,
      <<"i","n","f">>, <<"1",".","e","9","9","9">>,
      <<"q","u","i","t">>, <<"e","x","i","t">>, <<"l","e","a","v","e">> }

Blocked(r) == r.pc \in {"choice_input", "number_input"}

LinesFor(r) == IF r.pc = "choice_input" THEN ChoiceLines ELSE NumberLines

\* the value of mirror where no exchanged call is run
NoMirror == NewRun("none", <<>>, <<>>, PyInt(0), PyInt(0), NUM_)

(***************************************************************************)
(* Actions                                                                 *)
(***************************************************************************)
Init ==
    /\ run \in Calls
    /\ mirror = NoMirror
    /\ stdin = <<>>

CallGetStringChoice ==
    /\ run.pc = "idle" /\ run.fn = "GetStringChoice"
    /\ run' = GetStringChoice(Enter(run, "GetStringChoice"))
    /\ UNCHANGED <<mirror, stdin>>

CallGetYesNo ==
    /\ run.pc = "idle" /\ run.fn = "GetYesNo"
    /\ run' = GetYesNo(Enter(run, "GetYesNo"))
    /\ UNCHANGED <<mirror, stdin>>

CallGetTrueFalse ==
    /\ run.pc = "idle" /\ run.fn = "GetTrueFalse"
    /\ run' = GetTrueFalse(Enter(run, "GetTrueFalse"))
    /\ UNCHANGED <<mirror, stdin>>

CallGetNumber ==
    /\ run.pc = "idle" /\ run.fn = "GetNumber"
    /\ run' = GetNumber(Enter(run, "GetNumber"))
    /\ UNCHANGED <<mirror, stdin>>

CallGetNumberInRange ==
    /\ run.pc = "idle" /\ run.fn = "GetNumberInRange"
    /\ run' = GetNumberInRange(run, run.min_arg, run.max_arg)
    /\ UNCHANGED <<mirror, stdin>>

\* the user types one line while the program waits in input()
TypeLine ==
    /\ Blocked(run) /\ stdin = <<>> /\ run.nread < MaxReads
    /\ \E l \in LinesFor(run) : stdin' = <<l>>
    /\ UNCHANGED <<run, mirror>>

\* GetStringChoice's input() returns the line
ReadChoice ==
    /\ run.pc = "choice_input" /\ stdin # <<>>
    /\ run' = GetStringChoiceInput(run, Head(stdin))
    /\ stdin' = Tail(stdin)
    /\ UNCHANGED mirror

\* _AcceptAndValidateNumber's input() returns the line
ReadNumber ==
    /\ run.pc = "number_input" /\ stdin # <<>>
    /\ run' = _AcceptAndValidateNumberInput(run, Head(stdin))
    /\ stdin' = Tail(stdin)
    /\ UNCHANGED mirror

Next ==
    \/ CallGetStringChoice
    \/ CallGetYesNo
    \/ CallGetTrueFalse
    \/ CallGetNumber
    \/ CallGetNumberInRange
    \/ TypeLine
    \/ ReadChoice
    \/ ReadNumber

Spec == Init /\ [][Next]_vars

\* A blocked input() takes the line that is there: the step of ReadChoice and
\* of ReadNumber as stdin sees it.
InputReturns == Blocked(run) /\ stdin # <<>> /\ stdin' = Tail(stdin)

\* input() returns as soon as a line is there
FairSpec == Spec /\ WF_stdin(InputReturns)

(***************************************************************************)
(* The same numeric call made twice on the same input, once with the       *)
(* bounds in order (run) and once with them exchanged (mirror).            *)
(***************************************************************************)
\* pairs min < max
SwapPairs ==
    { <<PyInt(1), PyInt(10)>>, <<PyInt(-1), PyInt(5)>>, <<PyFloat(5), PyInt(5)>>,
      <<PyInt(1), PosInf>> }

SwapCalls ==
    { NewRun("GetNumber", ShortPrompt, <<>>, mm[1], mm[2], d) :
        mm \in SwapPairs, d \in {NUM_, INT_, FLOAT_} }
    \cup { NewRun("GetNumberInRange", <<>>, <<>>, mm[1], mm[2], NUM_) :
             mm \in SwapPairs }

Exchanged(r) ==
    [r EXCEPT !.min_arg = r.max_arg, !.max_arg = r.min_arg,
              !.min_opt = r.max_arg, !.max_opt = r.min_arg]

InitSwap ==
    /\ run \in SwapCalls
    /\ mirror = Exchanged(run)
    /\ stdin = <<>>

CallGetNumberBoth ==
    /\ run.pc = "idle" /\ run.fn = "GetNumber"
    /\ run' = GetNumber(Enter(run, "GetNumber"))
    /\ mirror' = GetNumber(Enter(mirror, "GetNumber"))
    /\ UNCHANGED stdin

CallGetNumberInRangeBoth ==
    /\ run.pc = "idle" /\ run.fn = "GetNumberInRange"
    /\ run' = GetNumberInRange(run, run.min_arg, run.max_arg)
    /\ mirror' = GetNumberInRange(mirror, mirror.min_arg, mirror.max_arg)
    /\ UNCHANGED stdin

\* both calls read the line, each if it waits for one
ReadNumberBoth ==
    /\ run.pc = "number_input" /\ stdin # <<>>
    /\ run' = _AcceptAndValidateNumberInput(run, Head(stdin))
    /\ mirror' = IF mirror.pc = "number_input"
                 THEN _AcceptAndValidateNumberInput(mirror, Head(stdin))
                 ELSE mirror
    /\ stdin' = Tail(stdin)

NextSwap ==
    \/ CallGetNumberBoth
    \/ CallGetNumberInRangeBoth
    \/ TypeLine
    \/ ReadNumberBoth

SpecSwap == InitSwap /\ [][NextSwap]_vars

(***************************************************************************)
(* _TruncateAtMax called on its own: once on a text, and once more on what *)
(* the first call returned.                                                *)
(*   str, max_len, spacer : the arguments of the current call              *)
(*   orig    : the text given to the first call                            *)
(*   pc      : "idle", "returned" or "raised"                              *)
(*   ncalls  : the number of calls made                                    *)
(*   result  : the text the last call returned                             *)
(***************************************************************************)
\* the texts of exactly n characters over "a", "b" and the blank
RECURSIVE TextsOfLen(_)
TextsOfLen(n) ==
    IF n = 0 THEN { <<>> }
    ELSE { Append(t, c) : t \in TextsOfLen(n - 1), c \in {"a", "b", " "} }

Texts == UNION { TextsOfLen(n) : n \in 0..MaxTextLen }

WrapRun(str, max_len, spacer) ==
    [fn |-> "_TruncateAtMax", str |-> str, max_len |-> max_len,
     spacer |-> spacer, orig |-> str, pc |-> "idle", ncalls |-> 0,
     result |-> <<>>, exc |-> ""]

WrapCalls ==
    { WrapRun(t, w, sp) : t \in Texts, w \in 1..MaxWidth, sp \in 0..MaxSpacer }

\* the call _TruncateAtMax(str, r.max_len, r.spacer)
Call_TruncateAtMax(r, str) ==
    IF _TruncateAtMaxRaises(str, r.max_len, r.spacer)
    THEN [r EXCEPT !.str = str, !.ncalls = @ + 1,
                   !.pc = "raised", !.exc = "IndexError"]
    ELSE [r EXCEPT !.str = str, !.ncalls = @ + 1, !.pc = "returned",
                   !.result = _TruncateAtMax(str, r.max_len, r.spacer)]

InitWrap ==
    /\ run \in WrapCalls
    /\ mirror = NoMirror
    /\ stdin = <<>>

TruncateAtMaxFirst ==
    /\ run.pc = "idle"
    /\ run' = Call_TruncateAtMax(run, run.str)
    /\ UNCHANGED <<mirror, stdin>>

\* the returned text is wrapped again, with the same max_len and spacer
TruncateAtMaxAgain ==
    /\ run.pc = "returned" /\ run.ncalls = 1
    /\ run' = Call_TruncateAtMax(run, run.result)
    /\ UNCHANGED <<mirror, stdin>>

NextWrap ==
    \/ TruncateAtMaxFirst
    \/ TruncateAtMaxAgain

SpecWrap == InitWrap /\ [][NextWrap]_vars

(***************************************************************************)
(* Properties                                                              *)
(***************************************************************************)
ChoiceFns == {"GetStringChoice", "GetYesNo", "GetTrueFalse"}

\* the number of entries of out equal to entry
Count(out, entry) == Cardinality({i \in 1..Len(out) : out[i] = entry})

\* the line the program is about to read
Pending == Head(stdin)

\* C1: in GetStringChoice and in GetYesNo, when the line read equals a key of
\* the option set, the call returns that key on that iteration and prints
\* nothing more (no rejection message for that line).
C1_KeyLineReturnsKey ==
    [][(/\ run.fn \in {"GetStringChoice", "GetYesNo"}
        /\ run.pc = "choice_input" /\ stdin # <<>>
        /\ Pending \in Keys(run.kwoptions))
       => (/\ run'.pc = "returned"
           /\ run'.result = RStr(Pending)
           /\ run'.nread = run.nread + 1
           /\ run'.stdout = run.stdout)]_vars

\* GetYesNo returned "n" at the second line, after one rejected line
C1_Witness ==
    /\ run.fn = "GetYesNo" /\ run.pc = "returned"
    /\ run.nread = 2 /\ run.line = <<"n">> /\ run.result = RStr(<<"n">>)

\* the line differs from some key, and only by case or surrounding blanks
NearKey(line, kwoptions) ==
    /\ line \notin Keys(kwoptions)
    /\ \E k \in Keys(kwoptions) : Strip(Lower(line)) = Strip(Lower(k))

\* C2: a value GetStringChoice returns is a key of the option set equal,
\* character for character, to the last line read; a line that differs from
\* the keys only by case or surrounding whitespace is not accepted.
C2_ExactKeyMatch ==
    run.fn \in ChoiceFns =>
        /\ run.pc = "returned" =>
              /\ run.line \in Keys(run.kwoptions)
              /\ run.fn # "GetTrueFalse" => run.result = RStr(run.line)
        /\ (run.nread > 0 /\ NearKey(run.line, run.kwoptions)) =>
              /\ run.pc = "choice_input"
              /\ run.stdout[Len(run.stdout) - Len(run.kwoptions) - 1] = MsgNotAnOption

\* "Y" was entered at GetYesNo and was not accepted
C2_Witness ==
    /\ run.fn = "GetYesNo" /\ run.nread > 0 /\ run.line = <<"Y">>
    /\ run.pc = "choice_input"

\* the last entries of out are the prompt and one option line per option, in
\* order, each starting with its key
EndsWithPromptAndOptions(out, kwoptions) ==
    LET n == Len(kwoptions)
        base == Len(out) - n
    IN /\ base >= 1
       /\ out[base].fmt = "{0}"
       /\ \A i \in 1..n :
             /\ out[base + i].fmt = OPTION_TEMPLATE
             /\ SubSeq(out[base + i].args[1], 1, Len(kwoptions[i].key))
                    = kwoptions[i].key

\* C3: a line that is no option key and no exit word makes GetStringChoice
\* print "That wasn't one of the options." and then the prompt and every
\* option line again before it reads; every read is immediately preceded by
\* the prompt and all the option lines, so there is one rejection message
\* per line read so far.
C3_RejectThenRedisplay ==
    run.fn \in ChoiceFns =>
        /\ (/\ run.nread > 0
            /\ run.line \notin Keys(run.kwoptions)
            /\ run.line \notin _EXIT_WORDS) => run.pc = "choice_input"
        /\ run.pc = "choice_input" =>
              /\ EndsWithPromptAndOptions(run.stdout, run.kwoptions)
              /\ Count(run.stdout, MsgNotAnOption) = run.nread
              /\ Len(run.stdout) = (run.nread + 1) * (Len(run.kwoptions) + 1) + run.nread
              /\ run.nread > 0 =>
                    run.stdout[Len(run.stdout) - Len(run.kwoptions) - 1] = MsgNotAnOption

\* two lines were rejected by a prompt with two options, which waits again
C3_Witness ==
    /\ run.fn = "GetStringChoice" /\ run.pc = "choice_input"
    /\ run.nread = 2 /\ Len(run.kwoptions) = 2

\* C4: GetStringChoice has no retry limit.  After every rejected line the loop
\* awaits input again; once it awaits input, the call ends only by returning
\* a key that was read or by SystemExit on an exit word that was read; and a
\* line equal to a key, once supplied, leads to the return of that key.
C4_NoRetryLimit ==
    /\ [](run.fn \in ChoiceFns =>
            ((/\ run.nread > 0
              /\ run.line \notin Keys(run.kwoptions)
              /\ run.line \notin _EXIT_WORDS)
             => (run.pc = "choice_input" /\ Count(run.stdout, MsgNotAnOption) = run.nread)))
    /\ [][(run.pc = "choice_input" /\ run'.pc # "choice_input") =>
            \/ /\ run'.pc = "returned"
               /\ run'.line = Pending /\ Pending \in Keys(run.kwoptions)
            \/ /\ run'.pc = "raised" /\ run'.exc = "SystemExit"
               /\ run'.line = Pending /\ Pending \in _EXIT_WORDS]_vars
    /\ (run.pc = "choice_input" /\ stdin # <<>> /\ Pending \in Keys(run.kwoptions))
          ~> (run.pc = "returned" /\ run.line \in Keys(run.kwoptions))

\* as many lines as the model allows were rejected and the loop still waits
C4_Witness ==
    /\ run.fn \in ChoiceFns /\ run.pc = "choice_input"
    /\ run.nread = MaxReads /\ Count(run.stdout, MsgNotAnOption) = run.nread

\* C6: GetStringChoice with no option raises at once: the loop is not
\* entered, nothing is printed and no line is read.
C6_EmptyOptionsRaise ==
    (run.fn = "GetStringChoice" /\ run.kwoptions = <<>> /\ run.pc # "idle") =>
        /\ run.pc = "raised" /\ run.exc = "ValueError"
        /\ run.stdout = <<>> /\ run.nread = 0

\* the call with no option has raised
C6_Witness ==
    run.fn = "GetStringChoice" /\ run.kwoptions = <<>> /\ run.pc = "raised"

\* the call restricts the range: GetNumberInRange is called
RangeMode(r) ==
    \/ r.fn = "GetNumberInRange"
    \/ r.fn = "GetNumber" /\ ~NoRangeGiven(r.min_arg, r.max_arg)

\* C5: a numeric call whose bounds are equal (min=5, max=5) raises a
\* configuration error at once: no line is read and the shared value is not
\* returned.  The code returns max_opt.
C5_EqualBoundsRaise ==
    (RangeMode(run) /\ run.pc # "idle" /\ NumEq(run.min_arg, run.max_arg)) =>
        /\ run.pc = "raised"
        /\ run.nread = 0
        /\ run.result = RNone

\* C7: with bounds a < b, the call made with (min=b, max=a) is, on every
\* input, where the call made with (min=a, max=b) is: the same output, the
\* same number of lines read, the same last line, result and exception, and
\* the same normalized bounds once called.
C7_ExchangedBoundsSame ==
    /\ mirror.pc = run.pc
    /\ mirror.stdout = run.stdout
    /\ mirror.nread = run.nread
    /\ mirror.line = run.line
    /\ mirror.result = run.result
    /\ mirror.exc = run.exc
    /\ run.pc # "idle" => (mirror.min_opt = run.min_opt /\ mirror.max_opt = run.max_opt)

\* both calls returned at the second line, after one value out of range, and
\* the mirror was given its bounds exchanged
C7_Witness ==
    /\ NumLt(mirror.max_arg, mirror.min_arg) /\ NumLt(run.min_arg, run.max_arg)
    /\ run.pc = "returned" /\ mirror.pc = "returned" /\ run.nread = 2
    /\ Count(mirror.stdout, MsgBetween(run.min_arg, run.max_arg)) = 1

\* C8: in range-restricted mode with min < max, a coerced value is accepted
\* and returned if and only if min <= value <= max; a coerced value outside
\* the range gets "Please pick a number between min and max." and another
\* read.  The code evaluates a formatted expression, which raises NameError
\* when the value or a bound is an infinity.
C8_AcceptIffInRange ==
    (RangeMode(run) /\ run.coerced /\ NumLt(run.min_opt, run.max_opt)) =>
        IF NumLe(run.min_opt, run.num_choice) /\ NumLe(run.num_choice, run.max_opt)
        THEN /\ run.pc = "returned"
             /\ run.data_type = NUM_ => run.result = RNum(run.num_choice)
        ELSE /\ run.pc = "number_input"
             /\ run.stdout[Len(run.stdout) - 1] = MsgBetween(run.min_opt, run.max_opt)

\* C9: the range hint is printed exactly once during a range-restricted
\* call, before the first read.  The code prints it on every pass of
\* GetNumberInRange's loop, so again after each value out of range.
C9_HintOnce ==
    (RangeMode(run) /\ (run.pc = "number_input" \/ run.nread > 0)) =>
        Count(run.stdout, MsgHint(run.min_opt, run.max_opt)) = 1

\* C10: a line equal to an exit word read by GetStringChoice (where it is no
\* option key), by unrestricted GetNumber or by range-restricted GetNumber
\* adds exactly one "Thanks!" to the output and nothing else, and SystemExit
\* leaves the call.  In range-restricted mode the code prints it twice.
C10_FarewellOnce ==
    [][(/\ Blocked(run) /\ stdin # <<>>
        /\ Pending \in _EXIT_WORDS
        /\ ~(run.pc = "choice_input" /\ Pending \in Keys(run.kwoptions)))
       => (/\ run'.pc = "raised" /\ run'.exc = "SystemExit"
           /\ run'.stdout = Append(run.stdout, MsgThanks))]_vars

\* the number of entries of out printed with format fmt
CountFmt(out, fmt) == Cardinality({i \in 1..Len(out) : out[i].fmt = fmt})

\* the line about to be read is an exit word, and the prompt treats it as one
\* (GetStringChoice looks the line up among the option keys first)
ExitLinePending ==
    /\ Blocked(run) /\ stdin # <<>>
    /\ Pending \in _EXIT_WORDS
    /\ ~(run.pc = "choice_input" /\ Pending \in Keys(run.kwoptions))

C12_CoercionByText ==
    /\ run.coerced =>
          /\ ParseFloat(run.line).ok
          /\ IF \E i \in 1..Len(run.line) : run.line[i] = "."
             THEN /\ run.num_choice.tag = "float"
                  /\ run.num_choice = ParseFloat(run.line).num
             ELSE /\ run.num_choice.tag = "int"
                  /\ run.num_choice.cls = "fin"
                  /\ run.num_choice.v % 10 = 0
                  /\ NumEq(run.num_choice, ToInt(ParseFloat(run.line).num))
    /\ (run.nread > 0 /\ run.pc # "choice_input" /\ run.fn \notin ChoiceFns) =>
          /\ run.line = <<"5">> => (run.coerced /\ run.num_choice = PyInt(5))
          /\ run.line = <<"5",".","0">> => (run.coerced /\ run.num_choice = PyFloat(50))
          /\ run.line = <<"5",".">> => (run.coerced /\ run.num_choice = PyFloat(50))
          /\ run.line = <<"0",".","5">> => (run.coerced /\ run.num_choice = PyFloat(5))
          /\ run.line = <<"-","3">> => (run.coerced /\ run.num_choice = PyInt(-3))
    /\ (run.fn = "GetNumber" /\ run.data_type = NUM_ /\ run.pc = "returned"
        /\ run.nread > 0) => run.result = RNum(run.num_choice)

\* unrestricted GetNumber returned the float 5.0 for the line "5." read after
\* a line that was no number
C12_Witness ==
    /\ run.fn = "GetNumber" /\ ~RangeMode(run) /\ run.data_type = NUM_
    /\ run.pc = "returned" /\ run.nread = 2 /\ run.line = <<"5",".">>
    /\ run.result = RNum(PyFloat(50))

\* the value is outside the range min_opt..max_opt
OutOfRange(r) ==
    ~(NumLe(r.min_opt, r.num_choice) /\ NumLe(r.num_choice, r.max_opt))

\* C13: a validation failure is recovered inside the prompt.  A line that is
\* no option key, a line float() cannot read, and a number outside the range
\* (none of them an exit word) each get their message and the prompt waits
\* for another line: no exception leaves the call and the call does not end.
\* The code lets NameError leave GetNumber when the number outside the range
\* is an infinity.
C13_ValidationRecoveredLocally ==
    (run.nread > 0 /\ run.line \notin _EXIT_WORDS) =>
        /\ (run.fn \in ChoiceFns /\ run.line \notin Keys(run.kwoptions)) =>
              /\ run.pc = "choice_input"
              /\ Count(run.stdout, MsgNotAnOption) = run.nread
        /\ (run.fn \notin ChoiceFns /\ ~ParseFloat(run.line).ok) =>
              /\ run.pc = "number_input"
              /\ run.stdout[Len(run.stdout)] = MsgPickNumber
        /\ (RangeMode(run) /\ run.coerced /\ NumLt(run.min_opt, run.max_opt)
            /\ OutOfRange(run)) =>
              /\ run.pc = "number_input"
              /\ run.stdout[Len(run.stdout) - 1] = MsgBetween(run.min_opt, run.max_opt)

\* the same, for finite numbers and bounds
C13_FiniteRecoveredLocally ==
    (run.nread > 0 /\ run.line \notin _EXIT_WORDS) =>
        /\ (run.fn \in ChoiceFns /\ run.line \notin Keys(run.kwoptions)) =>
              /\ run.pc = "choice_input"
              /\ Count(run.stdout, MsgNotAnOption) = run.nread
        /\ (run.fn \notin ChoiceFns /\ ~ParseFloat(run.line).ok) =>
              /\ run.pc = "number_input"
              /\ run.stdout[Len(run.stdout)] = MsgPickNumber
        /\ (RangeMode(run) /\ run.coerced /\ NumLt(run.min_opt, run.max_opt)
            /\ OutOfRange(run)
            /\ run.num_choice.cls = "fin"
            /\ run.min_opt.cls = "fin" /\ run.max_opt.cls = "fin") =>
              /\ run.pc = "number_input"
              /\ run.stdout[Len(run.stdout) - 1] = MsgBetween(run.min_opt, run.max_opt)

\* the number GetNumber's last step received: the number coerced from the
\* last line, or max_opt where the bounds were equal and no line was read
Accepted(r) == IF r.nread = 0 THEN r.max_opt ELSE r.num_choice

\* n is the int that a truncates to
IsTruncationOf(n, a) ==
    /\ n.tag = "int" /\ n.cls = "fin" /\ n.v % 10 = 0
    /\ a.cls = "fin"
    /\ IF a.v >= 0 THEN n.v <= a.v /\ a.v < n.v + 10
       ELSE n.v >= a.v /\ a.v > n.v - 10

\* C14: what GetNumber returns is the accepted number cast as data_type asks,
\* in unrestricted and in range-restricted mode: with NUM_ the number as
\* coerced (an int or a float by the coercion rule), with INT_ an int (a
\* float is truncated toward zero), with FLOAT_ a float of the same value.
C14_CastToDataType ==
    (run.fn = "GetNumber" /\ run.pc = "returned") =>
        /\ run.nread > 0 => run.coerced
        /\ run.result.kind = "num"
        /\ run.data_type = NUM_ => run.result.num = Accepted(run)
        /\ run.data_type = INT_ => IsTruncationOf(run.result.num, Accepted(run))
        /\ run.data_type = FLOAT_ =>
              /\ run.result.num.tag = "float"
              /\ NumEq(run.result.num, Accepted(run))

\* range-restricted GetNumber with INT_ read "5.0", coerced to the float 5.0,
\* and returned the int 5
C14_Witness ==
    /\ run.fn = "GetNumber" /\ RangeMode(run) /\ run.data_type = INT_
    /\ run.pc = "returned" /\ run.line = <<"5",".","0">>
    /\ run.num_choice = PyFloat(50) /\ run.result = RNum(PyInt(5))

\* C15: a text T shorter than the width W > 0 is returned unchanged by
\* _TruncateAtMax(T, W) with the default spacer: not split, its whitespace
\* untouched; so wrapping the result again returns T again.
C15_ShortTextUnchanged ==
    (/\ run.spacer = DEFAULT_SPACER /\ run.max_len > 0
     /\ Len(run.orig) < run.max_len /\ run.pc # "idle") =>
        /\ run.pc = "returned"
        /\ run.str = run.orig
        /\ run.result = run.orig

\* "a  b", with two blanks between its tokens, was wrapped twice at width 5
\* and came back as it was
C15_Witness ==
    /\ run.orig = <<"a"," "," ","b">> /\ run.max_len = 5
    /\ run.spacer = DEFAULT_SPACER
    /\ run.ncalls = 2 /\ run.pc = "returned" /\ run.result = run.orig

\* C16: for a text T longer than the width W, _TruncateAtMax(T, W, spacer)
\* returns a text whose whitespace-separated tokens are those of T, in the
\* same order, none lost or repeated.  The code raises IndexError where T
\* has no token.
C16_TokensPreserved ==
    (Len(run.str) > run.max_len /\ run.pc # "idle") =>
        /\ run.pc = "returned"
        /\ Split(run.result) = Split(run.str)

\* the same, for the texts that have a token
C16_TokensPreservedNonBlank ==
    (Len(run.str) > run.max_len /\ run.pc # "idle" /\ Split(run.str) # <<>>) =>
        /\ run.pc = "returned"
        /\ Split(run.result) = Split(run.str)

\* text t has a line of n characters or more: n characters in a row with no
\* line break among them
HasLineOfLen(t, n) ==
    \E i \in 1..(Len(t) - n + 1) : \A k \in i..(i + n - 1) : t[k] # "\n"

\* C19: every line of the text _TruncateAtMax returns is strictly shorter
\* than max_len, for every text, max_len and spacer.  The code compares the
\* line without the blank it appends after each term and without the spacer
\* it puts before each continuation line, and gives a term of max_len or more
\* characters a line of its own.
C19_LinesUnderWidth ==
    run.pc = "returned" => ~HasLineOfLen(run.result, run.max_len)

\* C17: on each pass GetStringChoice prints one option line per entry of the
\* option set, in insertion order, each key padded with blanks to the length
\* of the longest key; for {t: "True", f: "False"} these are two lines, the
\* keys one character wide, t then f.
C17_OptionRendering ==
    (run.fn \in ChoiceFns /\ run.pc = "choice_input") =>
        LET opts == run.kwoptions
            n == Len(opts)
            base == Len(run.stdout) - n
            width == CHOOSE w \in 0..20 :
                        /\ \E i \in 1..n : Len(opts[i].key) = w
                        /\ \A i \in 1..n : Len(opts[i].key) <= w
        IN /\ CountFmt(run.stdout, OPTION_TEMPLATE) = (run.nread + 1) * n
           /\ base >= 1 /\ run.stdout[base].fmt = "{0}"
           /\ \A i \in 1..n :
                 LET e == run.stdout[base + i] IN
                 /\ e.fmt = OPTION_TEMPLATE
                 /\ Len(e.args[1]) = width
                 /\ SubSeq(e.args[1], 1, Len(opts[i].key)) = opts[i].key
                 /\ \A k \in (Len(opts[i].key) + 1)..width : e.args[1][k] = " "
                 /\ Split(e.args[2]) = Split(opts[i].desc)
           /\ run.fn = "GetTrueFalse" =>
                 SubSeq(run.stdout, base + 1, base + 2) =
                    << Entry(OPTION_TEMPLATE, << <<"t">>, <<"T","r","u","e">> >>, <<>>),
                       Entry(OPTION_TEMPLATE, << <<"f">>, <<"F","a","l","s","e">> >>, <<>>) >>

\* GetTrueFalse printed its two option lines a second time, after a rejected
\* line
C17_Witness ==
    /\ run.fn = "GetTrueFalse" /\ run.pc = "choice_input" /\ run.nread = 1
    /\ CountFmt(run.stdout, OPTION_TEMPLATE) = 4

\* the call asks for the description: return_description=True
ReturnDescriptionRequested(r) ==
    \E i \in 1..Len(r.kwoptions) :
        r.kwoptions[i].key = ReturnDescriptionKey /\ r.kwoptions[i].desc = PyTrue

C20_ResultInRange ==
    (run.fn = "GetNumber" /\ RangeMode(run) /\ run.pc = "returned") =>
        /\ run.result.kind = "num"
        /\ NumLe(run.min_opt, run.result.num)
        /\ NumLe(run.result.num, run.max_opt)

\* the same where no float is cast to an int
C20_ResultInRangeNoTruncation ==
    (/\ run.fn = "GetNumber" /\ RangeMode(run) /\ run.pc = "returned"
     /\ (run.data_type = INT_ => Accepted(run).tag = "int")) =>
        /\ run.result.kind = "num"
        /\ NumLe(run.min_opt, run.result.num)
        /\ NumLe(run.result.num, run.max_opt)

=============================================================================
